---- MODULE Spec2Model ----
(***************************************************************************)
(* Frame Streams decoder (src/src/decoder.rs): Decoder<R: Read>, its       *)
(* private parsing functions and its two public read operations,           *)
(* Read::read (pull mode) and Iterator::next (sequence mode).              *)
(*                                                                         *)
(* The byte source is the sequence of bytes it has not yet handed out.    *)
(* A usize value is an integer; a value r < 0 stands for 2^64 + r, the    *)
(* result of a wrapped subtraction (2^64 itself is beyond TLC's integers).*)
(***************************************************************************)
EXTENDS Integers, Sequences, FiniteSets, TLC

VARIABLES
    reader,           \* Decoder.reader: the bytes the source still holds
    content_type,     \* Decoder.content_type: <<>> is None, <<s>> is Some(s)
    started,          \* Decoder.started
    overflow_checks,  \* the build's integer-overflow checks: "unobserved" until
                      \* an overflow happens, then "on" (panic) or "off" (wrap)
    panicked,         \* a call on this decoder has panicked
    buf,              \* the caller's buffer after the last pull-mode read
    last,             \* what the last public read operation did and returned
    ncalls,           \* number of public read operations so far
    stopByRead,       \* some read call has parsed a STOP control frame
    stopByNext,       \* some next call has parsed a STOP control frame
    nstart,           \* number of start handshakes that have succeeded
    nhs,              \* number of start handshakes that have been executed
    ndeliv,           \* number of calls that have delivered a payload
    failByNext,       \* some next call has ended the sequence on a failure
    ctBlind,          \* every call so far had the same outcome for every
                      \* value of the stored content-type filter
    wire,             \* the handshake h and the payloads d when the source was
                      \* built as h, frame(d1) .. frame(dk), STOP
    rt                \* the payload P when the source was built as
                      \* handshake, frame(P), STOP; <<>> otherwise

vars == <<reader, content_type, started, overflow_checks, panicked, buf, last,
          ncalls, stopByRead, stopByNext, nstart, nhs, ndeliv, failByNext,
          ctBlind, wire, rt>>

(***************************************************************************)
(* Program constants                                                       *)
(***************************************************************************)
MAX_CONTROL_FRAME_LENGTH == 512
CONTROL_START == 2
CONTROL_STOP == 3
CONTROL_FIELD_CONTENT_TYPE == 1
\* U+FFFD, what String::from_utf8_lossy puts for an invalid byte
REPLACEMENT_CHARACTER == 65533

(***************************************************************************)
(* Bounds of the model                                                     *)
(***************************************************************************)
MaxUnits == 2      \* wire units following the first one in a source
MaxCalls == 3      \* public read operations on one decoder
MaxCap == 2        \* capacity of a caller buffer
MaxPayLen == 2     \* length of a round-trip payload

(***************************************************************************)
(* Bytes and words                                                         *)
(***************************************************************************)
\* u32 as 4 big-endian bytes (what a writer puts on the wire)
W(n) == << n \div 16777216, (n \div 65536) % 256, (n \div 256) % 256, n % 256 >>

\* ReadBytesExt::read_u32::<BigEndian> on 4 bytes
BigEndianU32(b) == ((b[1] * 256 + b[2]) * 256 + b[3]) * 256 + b[4]

Drop(s, n) == SubSeq(s, n + 1, Len(s))
Take(s, n) == SubSeq(s, 1, n)

\* Read::read_exact of n bytes from source r: all n bytes, or an
\* UnexpectedEof error with the source drained
ReadExact(r, n) ==
    IF n <= Len(r)
    THEN [ok |-> TRUE, bytes |-> Take(r, n), rest |-> Drop(r, n)]
    ELSE [ok |-> FALSE, bytes |-> r, rest |-> <<>>]

\* self.reader.read_u32::<BigEndian>(): x is the read_exact of its 4 bytes
U32Of(x) ==
    IF x.ok THEN [ok |-> TRUE, v |-> BigEndianU32(x.bytes), rest |-> x.rest]
            ELSE [ok |-> FALSE, v |-> -1, rest |-> x.rest]
ReadU32(r) == U32Of(ReadExact(r, 4))

\* String::from_utf8_lossy on bytes that are ASCII or 0xFF: an ASCII byte is
\* its own character, 0xFF is never valid UTF-8 and becomes U+FFFD
from_utf8_lossy(bytes) ==
    [i \in 1..Len(bytes) |->
        IF bytes[i] < 128 THEN bytes[i] ELSE REPLACEMENT_CHARACTER]

\* usize comparison a > b (a negative integer stands for 2^64 + it)
UsizeGt(a, b) == IF (a < 0) = (b < 0) THEN a > b ELSE a < 0

NoErr == "none"

(***************************************************************************)
(* Private parsing functions.  Each takes the source r and returns `rest`, *)
(* the source afterwards, and `info`, a record of what it read and         *)
(* returned.  A function is written as a chain of steps, each taking the   *)
(* results of the reads made so far.                                       *)
(***************************************************************************)
FieldInfo(ok, err, limit, ftype, flen, vread, ctype, n, ev) ==
    [ok |-> ok, err |-> err, limit |-> limit, ftype |-> ftype, flen |-> flen,
     vread |-> vread, ctype |-> ctype, n |-> n, ev |-> ev]

\* read_control_field after read_exact(&mut buf): rd
FieldValueRead(limit, ft, fl, rd) ==
    IF ~rd.ok THEN
        [rest |-> rd.rest,
         info |-> FieldInfo(FALSE, "UnexpectedEof", limit, ft.v, fl.v,
                            Len(rd.bytes), <<>>, -1,
                            <<"field_type", "field_len", "field_value">>)]
    ELSE
        [rest |-> rd.rest,
         info |-> FieldInfo(TRUE, NoErr, limit, ft.v, fl.v, fl.v,
                            from_utf8_lossy(rd.bytes), 8 + fl.v,
                            <<"field_type", "field_len", "field_value">>)]

\* read_control_field after the read of field_len: fl
FieldLenRead(limit, ft, fl) ==
    IF ~fl.ok THEN
        [rest |-> fl.rest,
         info |-> FieldInfo(FALSE, "UnexpectedEof", limit, ft.v, -1, -1, <<>>, -1,
                            <<"field_type", "field_len">>)]
    ELSE IF UsizeGt(fl.v, limit) THEN
        [rest |-> fl.rest,
         info |-> FieldInfo(FALSE, "InvalidInput", limit, ft.v, fl.v, -1, <<>>, -1,
                            <<"field_type", "field_len">>)]
    ELSE FieldValueRead(limit, ft, fl, ReadExact(fl.rest, fl.v))

\* FieldTypeRead without the check of field_type
FieldTypeRead_Unchecked(limit, ft) ==
    IF ~ft.ok THEN
        [rest |-> ft.rest,
         info |-> FieldInfo(FALSE, "UnexpectedEof", limit, -1, -1, -1, <<>>, -1,
                            <<"field_type">>)]
    ELSE FieldLenRead(limit, ft, ReadU32(ft.rest))

\* read_control_field after the read of field_type: ft
FieldTypeRead(limit, ft) ==
    IF ~ft.ok THEN
        [rest |-> ft.rest,
         info |-> FieldInfo(FALSE, "UnexpectedEof", limit, -1, -1, -1, <<>>, -1,
                            <<"field_type">>)]
    ELSE IF ft.v # CONTROL_FIELD_CONTENT_TYPE THEN
        [rest |-> ft.rest,
         info |-> FieldInfo(FALSE, "InvalidInput", limit, ft.v, -1, -1, <<>>, -1,
                            <<"field_type">>)]
    ELSE FieldLenRead(limit, ft, ReadU32(ft.rest))

\* fn read_control_field(&mut self, limit: usize) -> Result<(String, usize)>
read_control_field(r, limit) == FieldTypeRead(limit, ReadU32(r))

\* the loop of read_control_frame: while remaining > 8 { read_control_field;
\* push; remaining -= n }.  oc is what the build does on integer overflow,
\* wrapped whether a subtraction has wrapped.
RECURSIVE FieldLoop(_, _, _, _, _, _)

\* the loop body after read_control_field(remaining)?: f
FieldStep(f, remaining, content_types, fields, wrapped, oc) ==
    IF ~f.info.ok THEN
        [res |-> "err", err |-> f.info.err, rest |-> f.rest,
         content_types |-> content_types, fields |-> Append(fields, f.info),
         remaining |-> remaining, overflowed |-> wrapped]
    ELSE IF remaining >= 0 /\ f.info.n > remaining /\ oc = "on" THEN
        \* remaining -= n: attempt to subtract with overflow
        [res |-> "panic", err |-> NoErr, rest |-> f.rest,
         content_types |-> Append(content_types, f.info.ctype),
         fields |-> Append(fields, f.info),
         remaining |-> remaining, overflowed |-> TRUE]
    ELSE
        FieldLoop(f.rest, remaining - f.info.n,
                  Append(content_types, f.info.ctype), Append(fields, f.info),
                  wrapped \/ (remaining >= 0 /\ f.info.n > remaining), oc)

FieldLoop(r, remaining, content_types, fields, wrapped, oc) ==
    IF ~UsizeGt(remaining, 8) THEN
        [res |-> "ok", err |-> NoErr, rest |-> r, content_types |-> content_types,
         fields |-> fields, remaining |-> remaining, overflowed |-> wrapped]
    ELSE
        FieldStep(read_control_field(r, remaining), remaining, content_types,
                  fields, wrapped, oc)

ControlInfo(res, err, L, typeRead, control_type, content_types, fields, remaining, overflowed) ==
    [res |-> res, err |-> err, L |-> L, typeRead |-> typeRead,
     control_type |-> control_type, content_types |-> content_types,
     fields |-> fields, remaining |-> remaining, overflowed |-> overflowed]

\* read_control_frame at its end: Ok(ControlFrame { .. }) or the loop's error
ControlFieldsRead(fl, ct, lp) ==
    [rest |-> lp.rest,
     info |-> ControlInfo(lp.res, lp.err, fl.v, TRUE, ct.v, lp.content_types,
                          lp.fields, lp.remaining, lp.overflowed)]

\* read_control_frame after the read of control_type: ct
ControlTypeRead(fl, ct, oc) ==
    IF ~ct.ok THEN
        [rest |-> ct.rest,
         info |-> ControlInfo("err", "UnexpectedEof", fl.v, TRUE, -1, <<>>, <<>>,
                              -1, FALSE)]
    ELSE ControlFieldsRead(fl, ct,
                           FieldLoop(ct.rest, fl.v - 4, <<>>, <<>>, FALSE, oc))

\* ControlLenRead with frame_len >= MAX_CONTROL_FRAME_LENGTH for the upper bound
ControlLenRead_OffByOne(fl, oc) ==
    IF ~fl.ok THEN
        [rest |-> fl.rest,
         info |-> ControlInfo("err", "UnexpectedEof", -1, FALSE, -1, <<>>, <<>>,
                              -1, FALSE)]
    ELSE IF fl.v >= MAX_CONTROL_FRAME_LENGTH \/ fl.v < 4 THEN
        [rest |-> fl.rest,
         info |-> ControlInfo("err", "InvalidData", fl.v, FALSE, -1, <<>>, <<>>,
                              -1, FALSE)]
    ELSE ControlTypeRead(fl, ReadU32(fl.rest), oc)

\* read_control_frame after the read of frame_len: fl
ControlLenRead(fl, oc) ==
    IF ~fl.ok THEN
        [rest |-> fl.rest,
         info |-> ControlInfo("err", "UnexpectedEof", -1, FALSE, -1, <<>>, <<>>,
                              -1, FALSE)]
    ELSE IF fl.v > MAX_CONTROL_FRAME_LENGTH THEN
        [rest |-> fl.rest,
         info |-> ControlInfo("err", "InvalidData", fl.v, FALSE, -1, <<>>, <<>>,
                              -1, FALSE)]
    ELSE IF fl.v < 4 THEN
        [rest |-> fl.rest,
         info |-> ControlInfo("err", "InvalidData", fl.v, FALSE, -1, <<>>, <<>>,
                              -1, FALSE)]
    ELSE ControlTypeRead(fl, ReadU32(fl.rest), oc)

\* fn read_control_frame(&mut self) -> Result<ControlFrame>
read_control_frame(r, oc) == ControlLenRead(ReadU32(r), oc)

\* StartFrameRead without the comparison of control_type with CONTROL_START
StartFrameRead_AnyType(n, frame) ==
    [rest |-> frame.rest,
     info |-> [res |-> frame.info.res, err |-> frame.info.err,
               sentinel |-> n.v, cf |-> <<frame.info>>]]

\* read_start_frame after self.read_control_frame(): frame
\* info: sentinel is the first word (-1 when the read failed), cf the
\* control-frame parses issued (none or one)
StartFrameRead(n, frame) ==
    IF frame.info.res # "ok" THEN
        [rest |-> frame.rest,
         info |-> [res |-> frame.info.res, err |-> frame.info.err,
                   sentinel |-> n.v, cf |-> <<frame.info>>]]
    ELSE IF frame.info.control_type = CONTROL_START THEN
        [rest |-> frame.rest,
         info |-> [res |-> "ok", err |-> NoErr, sentinel |-> n.v,
                   cf |-> <<frame.info>>]]
    ELSE
        [rest |-> frame.rest,
         info |-> [res |-> "err", err |-> "InvalidInput", sentinel |-> n.v,
                   cf |-> <<frame.info>>]]

\* read_start_frame after the read of the first word: n
StartSentinelRead(n, oc) ==
    IF ~n.ok THEN
        [rest |-> n.rest,
         info |-> [res |-> "err", err |-> "UnexpectedEof", sentinel |-> -1,
                   cf |-> <<>>]]
    ELSE IF n.v # 0 THEN
        [rest |-> n.rest,
         info |-> [res |-> "err", err |-> "InvalidData", sentinel |-> n.v,
                   cf |-> <<>>]]
    ELSE StartFrameRead(n, read_control_frame(n.rest, oc))

\* fn read_start_frame(&mut self) -> Result<()>
read_start_frame(r, oc) == StartSentinelRead(ReadU32(r), oc)

\* fn read_frame_length(&mut self) -> Result<usize>
read_frame_length(r) == ReadU32(r)

\* read_n whose read takes one byte of the next unit along with the payload
ReadNExact_ReadAhead(n, b, partial, rd) ==
    [ok |-> rd.ok, err |-> IF rd.ok THEN NoErr ELSE "UnexpectedEof",
     n |-> IF rd.ok THEN n ELSE -1,
     buf |-> [i \in 1..Len(b) |->
                IF (rd.ok \/ partial) /\ i <= Len(rd.bytes) THEN rd.bytes[i]
                ELSE b[i]],
     rest |-> Drop(rd.rest, 1)]

\* read_n after self.reader.read_exact(&mut buf[..n]): rd.  On a short read
\* the source is drained; whether the bytes that were there reach the buffer
\* is up to the source's read_exact (partial).
ReadNExact(n, b, partial, rd) ==
    IF rd.ok THEN
        [ok |-> TRUE, err |-> NoErr, n |-> n,
         buf |-> [i \in 1..Len(b) |-> IF i <= n THEN rd.bytes[i] ELSE b[i]],
         rest |-> rd.rest]
    ELSE
        [ok |-> FALSE, err |-> "UnexpectedEof", n |-> -1,
         buf |-> [i \in 1..Len(b) |->
                    IF partial /\ i <= Len(rd.bytes) THEN rd.bytes[i] ELSE b[i]],
         rest |-> rd.rest]

\* read_n with n >= buf.len() for the capacity check
read_n_OffByOne(r, n, b, partial) ==
    IF n >= Len(b) THEN
        [ok |-> FALSE, err |-> "Other", n |-> -1, buf |-> b, rest |-> r]
    ELSE ReadNExact(n, b, partial, ReadExact(r, n))

\* fn read_n(&mut self, n: usize, buf: &mut [u8]) -> Result<usize>
read_n(r, n, b, partial) ==
    IF n > Len(b) THEN
        [ok |-> FALSE, err |-> "Other", n |-> -1, buf |-> b, rest |-> r]
    ELSE ReadNExact(n, b, partial, ReadExact(r, n))

(***************************************************************************)
(* Public read operations, as functions of the decoder's state.            *)
(*   r: the source, st: the started flag, b: the caller's buffer, oc: the  *)
(*   build's overflow behaviour.  In an outcome, hs holds the handshake's  *)
(*   info (empty when skipped), flen the top-level length word (-1 when    *)
(*   not read), top the top-level control-frame parse (empty when none),   *)
(*   payload the length handed to read_n (-1 when not called), left the    *)
(*   number of bytes the source held at that call of read_n, stop whether  *)
(*   a STOP control frame was parsed at top level.                         *)
(***************************************************************************)
Outcome(rest, st, b, ret, n, err, data, hs, flen, top, payload, left, stop) ==
    [rest |-> rest, started |-> st, buf |-> b, ret |-> ret, n |-> n,
     err |-> err, data |-> data, hs |-> hs, flen |-> flen, top |-> top,
     payload |-> payload, left |-> left, stop |-> stop]

\* the handshake's result: h is read_start_frame's
Handshake(h) ==
    [rest |-> h.rest, ok |-> h.info.res = "ok", hs |-> <<h.info>>,
     res |-> h.info.res, err |-> h.info.err]

\* StartIfNeeded with the handshake left out
StartIfNeeded_Skipped(r, st, oc) ==
    [rest |-> r, ok |-> TRUE, hs |-> <<>>, res |-> "ok", err |-> NoErr]

\* if !self.started { self.read_start_frame()?; self.started = true; }
StartIfNeeded(r, st, oc) ==
    IF st THEN [rest |-> r, ok |-> TRUE, hs |-> <<>>, res |-> "ok", err |-> NoErr]
    ELSE Handshake(read_start_frame(r, oc))

\* ReadControl clearing the caller's buffer before it returns
ReadControl_Clears(h, frame, b) ==
    IF frame.info.res # "ok" THEN
        Outcome(frame.rest, TRUE, b,
                IF frame.info.res = "panic" THEN "Panic" ELSE "Err", -1,
                frame.info.err, <<>>, h.hs, 0, <<frame.info>>, -1, -1, FALSE)
    ELSE
        Outcome(frame.rest, TRUE, [i \in 1..Len(b) |-> 0], "Ok", 0, NoErr, <<>>,
                h.hs, 0, <<frame.info>>, -1, -1,
                frame.info.control_type = CONTROL_STOP)

\* read after self.read_control_frame()?: return Ok(0)
ReadControl(h, frame, b) ==
    IF frame.info.res # "ok" THEN
        Outcome(frame.rest, TRUE, b,
                IF frame.info.res = "panic" THEN "Panic" ELSE "Err", -1,
                frame.info.err, <<>>, h.hs, 0, <<frame.info>>, -1, -1, FALSE)
    ELSE
        Outcome(frame.rest, TRUE, b, "Ok", 0, NoErr, <<>>, h.hs, 0,
                <<frame.info>>, -1, -1,
                frame.info.control_type = CONTROL_STOP)

\* read at its end: self.read_n(frame_len, &mut buf[..])
ReadData(h, frame_len, rn) ==
    Outcome(rn.rest, TRUE, rn.buf, IF rn.ok THEN "Ok" ELSE "Err", rn.n,
            rn.err, <<>>, h.hs, frame_len.v, <<>>, frame_len.v,
            Len(frame_len.rest), FALSE)

\* ReadDispatch without the frame_len == 0 branch
ReadDispatch_NoControl(h, frame_len, b, oc, partial) ==
    IF ~frame_len.ok THEN
        Outcome(frame_len.rest, TRUE, b, "Err", -1, "UnexpectedEof", <<>>, h.hs,
                -1, <<>>, -1, -1, FALSE)
    ELSE
        ReadData(h, frame_len, read_n(frame_len.rest, frame_len.v, b, partial))

\* read after self.read_frame_length(): frame_len
ReadDispatch(h, frame_len, b, oc, partial) ==
    IF ~frame_len.ok THEN
        Outcome(frame_len.rest, TRUE, b, "Err", -1, "UnexpectedEof", <<>>, h.hs,
                -1, <<>>, -1, -1, FALSE)
    ELSE IF frame_len.v = 0 THEN
        ReadControl(h, read_control_frame(frame_len.rest, oc), b)
    ELSE
        ReadData(h, frame_len, read_n(frame_len.rest, frame_len.v, b, partial))

\* read after the handshake: h
ReadStarted(h, st, b, oc, partial) ==
    IF ~h.ok THEN
        Outcome(h.rest, st, b, IF h.res = "panic" THEN "Panic" ELSE "Err", -1,
                h.err, <<>>, h.hs, -1, <<>>, -1, -1, FALSE)
    ELSE ReadDispatch(h, read_frame_length(h.rest), b, oc, partial)

\* impl Read for Decoder: fn read(&mut self, buf: &mut [u8]) -> Result<usize>
read(r, st, b, oc, partial) ==
    ReadStarted(StartIfNeeded(r, st, oc), st, b, oc, partial)

\* let mut buf = Vec::with_capacity(frame_len); buf.resize(frame_len, 0);
\* self.read_n(frame_len, &mut buf[..]).  The vector is built here only when
\* the source can fill it; otherwise read_exact fails whatever it holds.
ReadFrame(r, n) ==
    IF n <= Len(r) THEN read_n(r, n, [i \in 1..n |-> 0], FALSE)
    ELSE [ok |-> FALSE, err |-> "UnexpectedEof", n |-> -1, buf |-> <<>>,
          rest |-> <<>>]

\* next at its end: match self.read_n(..) { Ok(_) => Some(Frame), Err(_) => None }
NextData(h, frame_len, top, left, rn, b) ==
    Outcome(rn.rest, TRUE, b, IF rn.ok THEN "Some" ELSE "None", rn.n, rn.err,
            IF rn.ok THEN rn.buf ELSE <<>>, h.hs, frame_len.v, top, frame_len.v,
            left, FALSE)

\* NextControl without the return None on CONTROL_STOP
NextControl_NoStop(h, frame_len, frame, b) ==
    IF frame.info.res # "ok" THEN
        Outcome(frame.rest, TRUE, b,
                IF frame.info.res = "panic" THEN "Panic" ELSE "None", -1,
                frame.info.err, <<>>, h.hs, 0, <<frame.info>>, -1, -1, FALSE)
    ELSE
        NextData(h, frame_len, <<frame.info>>, Len(frame.rest),
                 ReadFrame(frame.rest, frame_len.v), b)

\* next after self.read_control_frame().ok()?: only STOP returns None,
\* any other control frame falls through to the payload read
NextControl(h, frame_len, frame, b) ==
    IF frame.info.res # "ok" THEN
        Outcome(frame.rest, TRUE, b,
                IF frame.info.res = "panic" THEN "Panic" ELSE "None", -1,
                frame.info.err, <<>>, h.hs, 0, <<frame.info>>, -1, -1, FALSE)
    ELSE IF frame.info.control_type = CONTROL_STOP THEN
        Outcome(frame.rest, TRUE, b, "None", -1, NoErr, <<>>, h.hs, 0,
                <<frame.info>>, -1, -1, TRUE)
    ELSE
        NextData(h, frame_len, <<frame.info>>, Len(frame.rest),
                 ReadFrame(frame.rest, frame_len.v), b)

\* next after self.read_frame_length().ok()?: frame_len
NextDispatch(h, frame_len, b, oc) ==
    IF ~frame_len.ok THEN
        Outcome(frame_len.rest, TRUE, b, "None", -1, "UnexpectedEof", <<>>, h.hs,
                -1, <<>>, -1, -1, FALSE)
    ELSE IF frame_len.v = 0 THEN
        NextControl(h, frame_len, read_control_frame(frame_len.rest, oc), b)
    ELSE
        NextData(h, frame_len, <<>>, Len(frame_len.rest),
                 ReadFrame(frame_len.rest, frame_len.v), b)

\* NextStarted with self.started = true ahead of self.read_start_frame()
NextStarted_SetsEarly(h, st, b, oc) ==
    IF ~h.ok THEN
        Outcome(h.rest, TRUE, b, IF h.res = "panic" THEN "Panic" ELSE "None", -1,
                h.err, <<>>, h.hs, -1, <<>>, -1, -1, FALSE)
    ELSE NextDispatch(h, read_frame_length(h.rest), b, oc)

\* next after the handshake: h
NextStarted(h, st, b, oc) ==
    IF ~h.ok THEN
        Outcome(h.rest, st, b, IF h.res = "panic" THEN "Panic" ELSE "None", -1,
                h.err, <<>>, h.hs, -1, <<>>, -1, -1, FALSE)
    ELSE NextDispatch(h, read_frame_length(h.rest), b, oc)

\* impl Iterator for Decoder: fn next(&mut self) -> Option<Frame>
next(r, st, b, oc) == NextStarted(StartIfNeeded(r, st, oc), st, b, oc)

\* Decoder_next enforcing the filter: with a filter stored, the payload of a
\* data frame is dropped
Decoder_next_Filtered(self, b, oc) ==
    IF self.content_type = <<>> THEN next(self.reader, self.started, b, oc)
    ELSE [next(self.reader, self.started, b, oc) EXCEPT !.data = <<>>]

\* the two public read operations as methods of the decoder: self holds the
\* fields reader, content_type and started
Decoder_read(self, b, oc, partial) ==
    read(self.reader, self.started, b, oc, partial)

Decoder_next(self, b, oc) == next(self.reader, self.started, b, oc)

\* whether an integer overflow happened in one of the call's control frames
Overflowed(o) ==
    \/ \E i \in 1..Len(o.top) : o.top[i].overflowed
    \/ \E i \in 1..Len(o.hs) : \E j \in 1..Len(o.hs[i].cf) : o.hs[i].cf[j].overflowed

(***************************************************************************)
(* Byte sources: what a writer may have put on the wire                    *)
(***************************************************************************)
\* a control field: field_type, field_len, value
Field(ftype, flen, value) == W(ftype) \o W(flen) \o value
\* a control frame after the zero length word: ctrl_length, control_type, fields
CtlFrame(L, ctype, body) == W(L) \o W(ctype) \o body
\* a top-level control unit and a top-level data unit
CtlUnit(L, ctype, body) == W(0) \o CtlFrame(L, ctype, body)
DataUnit(P) == W(Len(P)) \o P

StartBare == CtlUnit(4, CONTROL_START, <<>>)
\* START with a content-type field whose second byte is not UTF-8
StartWithField ==
    CtlUnit(14, CONTROL_START, Field(CONTROL_FIELD_CONTENT_TYPE, 2, <<97, 255>>))
StopBare == CtlUnit(4, CONTROL_STOP, <<>>)

Handshakes == {StartBare, StartWithField}

Units ==
    { DataUnit(<<7>>),
      StopBare,
      StartBare,
      \* a control frame that is neither START nor STOP
      CtlUnit(4, 5, <<>>),
      \* control-frame length below 4 and above MAX_CONTROL_FRAME_LENGTH
      W(0) \o W(3),
      W(0) \o W(MAX_CONTROL_FRAME_LENGTH + 1),
      \* a field of an unrecognized type
      CtlUnit(14, CONTROL_STOP, Field(9, 2, <<7, 7>>)),
      \* a field longer than the frame's remaining bytes (11 > 10)
      CtlUnit(14, CONTROL_STOP, Field(CONTROL_FIELD_CONTENT_TYPE, 11, <<>>)),
      \* a field whose length fits the remaining 9 bytes but not with its header
      CtlUnit(13, CONTROL_STOP,
              Field(CONTROL_FIELD_CONTENT_TYPE, 9, <<1, 1, 1, 1, 1, 1, 1, 1, 1>>)),
      \* a frame whose remaining 8 bytes are exactly an empty field's header
      CtlUnit(12, CONTROL_STOP, Field(CONTROL_FIELD_CONTENT_TYPE, 0, <<>>)),
      \* a control frame of the largest length
      CtlUnit(MAX_CONTROL_FRAME_LENGTH, CONTROL_STOP,
              Field(CONTROL_FIELD_CONTENT_TYPE, MAX_CONTROL_FRAME_LENGTH - 12,
                    [i \in 1..(MAX_CONTROL_FRAME_LENGTH - 12) |-> 97])),
      \* a data frame of declared length 2 holding one byte
      W(2) \o <<7>> }

RECURSIVE UnitSeqs(_)
UnitSeqs(n) ==
    IF n = 0 THEN {<<>>}
    ELSE LET shorter == UnitSeqs(n - 1) IN
         shorter \cup {u \o s : u \in Units, s \in shorter}

\* sources: any unit sequence, with or without a handshake in front
Sources ==
    {h \o s : h \in Handshakes \cup {<<>>}, s \in UnitSeqs(MaxUnits)}

PayloadBytes == {0, 7}
RECURSIVE PayloadsOfLen(_)
PayloadsOfLen(n) ==
    IF n = 0 THEN {<<>>}
    ELSE {Append(p, x) : p \in PayloadsOfLen(n - 1), x \in PayloadBytes}
Payloads == UNION {PayloadsOfLen(n) : n \in 1..MaxPayLen}

\* handshake, frame(P), STOP control frame
RoundTrip(h, P) == h \o DataUnit(P) \o StopBare

\* sequences of n data-frame payloads, and their frames on the wire
FramePayloads == {<<7>>, <<0, 7>>}
RECURSIVE PayloadSeqs(_)
PayloadSeqs(n) ==
    IF n = 0 THEN {<<>>}
    ELSE {<<P>> \o ds : P \in FramePayloads, ds \in PayloadSeqs(n - 1)}
RECURSIVE Frames(_)
Frames(ds) == IF ds = <<>> THEN <<>> ELSE DataUnit(Head(ds)) \o Frames(Tail(ds))
NoWire == [h |-> <<>>, d |-> <<>>]

\* caller buffers: the empty one and one of capacity MaxCap, filled with a
\* byte (0xAA) no source holds
Buffers == {[i \in 1..c |-> 170] : c \in {0, MaxCap}}
ContentTypes == {<<116>>}
\* the values of Decoder.content_type: None and Some(ctype)
Filters == {<<>>} \cup {<<ctype>> : ctype \in ContentTypes}

NoCall ==
    [op |-> "none", ret |-> "none", n |-> -1, err |-> NoErr, data |-> <<>>,
     started0 |-> FALSE, buf0 |-> <<>>, prevOp |-> "none",
     readStopBefore |-> FALSE, nextStopBefore |-> FALSE,
     nextFailBefore |-> FALSE, filter0 |-> <<>>, hs |-> <<>>,
     flen |-> -1, top |-> <<>>, payload |-> -1, head |-> -1, consumed |-> 0,
     eaten |-> <<>>, stop |-> FALSE]

\* Decoder::new(source)
Init ==
    /\ \/ /\ reader \in Sources
          /\ rt = <<>>
          /\ wire = NoWire
       \/ \E h \in Handshakes, P \in Payloads :
             /\ reader = RoundTrip(h, P)
             /\ rt = P
             /\ wire = [h |-> h, d |-> <<P>>]
       \/ \E h \in Handshakes, k \in 2..MaxUnits :
             \E ds \in PayloadSeqs(k) :
                /\ reader = h \o Frames(ds) \o StopBare
                /\ rt = <<>>
                /\ wire = [h |-> h, d |-> ds]
    /\ content_type = <<>>
    /\ started = FALSE
    /\ overflow_checks = "unobserved"
    /\ panicked = FALSE
    /\ buf = <<>>
    /\ last = NoCall
    /\ ncalls = 0
    /\ stopByRead = FALSE
    /\ stopByNext = FALSE
    /\ nstart = 0
    /\ nhs = 0
    /\ ndeliv = 0
    /\ failByNext = FALSE
    /\ ctBlind = TRUE

OverflowChoices ==
    IF overflow_checks = "unobserved" THEN {"on", "off"} ELSE {overflow_checks}

\* what a public read operation leaves behind: the decoder's fields, and in
\* `last` the call's course; head is the number of bytes consumed before
\* read_n, eaten the bytes the call consumed; blind tells whether the call's
\* outcome is the same for every value of the stored filter
Record(op, b, o, oc, blind) ==
    /\ reader' = o.rest
    /\ started' = o.started
    /\ overflow_checks' = IF Overflowed(o) THEN oc ELSE overflow_checks
    /\ panicked' = (o.ret = "Panic")
    /\ buf' = o.buf
    /\ last' = [op |-> op, ret |-> o.ret, n |-> o.n, err |-> o.err,
                data |-> o.data, started0 |-> started, buf0 |-> b,
                prevOp |-> last.op, readStopBefore |-> stopByRead,
                nextStopBefore |-> stopByNext,
                nextFailBefore |-> failByNext, filter0 |-> content_type,
                hs |-> o.hs, flen |-> o.flen,
                top |-> o.top, payload |-> o.payload,
                head |-> IF o.payload = -1 THEN -1 ELSE Len(reader) - o.left,
                consumed |-> Len(reader) - Len(o.rest),
                eaten |-> Take(reader, Len(reader) - Len(o.rest)),
                stop |-> o.stop]
    /\ ncalls' = ncalls + 1
    /\ stopByRead' = (stopByRead \/ (op = "read" /\ o.stop))
    /\ stopByNext' = (stopByNext \/ (op = "next" /\ o.stop))
    /\ nstart' = nstart + (IF o.hs # <<>> /\ o.hs[1].res = "ok" THEN 1 ELSE 0)
    /\ nhs' = nhs + (IF o.hs # <<>> THEN 1 ELSE 0)
    /\ ndeliv' = ndeliv + (IF (o.ret = "Ok" /\ o.n > 0) \/ o.ret = "Some"
                           THEN 1 ELSE 0)
    /\ failByNext' = (failByNext \/ (op = "next" /\ o.ret = "None" /\ ~o.stop))
    /\ ctBlind' = (ctBlind /\ blind)
    /\ UNCHANGED <<content_type, wire, rt>>

\* the decoder with ctype stored as its content-type filter
Self(ctype) == [reader |-> reader, content_type |-> ctype, started |-> started]

\* read with outcome o, compared with its outcome under every other filter
ReadCall(b, oc, partial, o) ==
    Record("read", b, o, oc,
           \A ctype \in Filters \ {content_type} :
               Decoder_read(Self(ctype), b, oc, partial) = o)

\* next with outcome o, compared with its outcome under every other filter
NextCall(oc, o) ==
    Record("next", buf, o, oc,
           \A ctype \in Filters \ {content_type} :
               Decoder_next(Self(ctype), buf, oc) = o)

\* decoder.read(&mut b)
Read(b, oc, partial) ==
    /\ ~panicked
    /\ ncalls < MaxCalls
    /\ ReadCall(b, oc, partial, Decoder_read(Self(content_type), b, oc, partial))

\* decoder.next()
IterNext(oc) ==
    /\ ~panicked
    /\ ncalls < MaxCalls
    /\ NextCall(oc, Decoder_next(Self(content_type), buf, oc))

\* decoder.content_type(ctype)
ContentType(ctype) ==
    /\ ~panicked
    /\ content_type' = <<ctype>>
    /\ UNCHANGED <<reader, started, overflow_checks, panicked, buf, last, ncalls,
                   stopByRead, stopByNext, nstart, nhs, ndeliv, failByNext,
                   ctBlind, wire, rt>>

Next ==
    \/ \E b \in Buffers, oc \in OverflowChoices, partial \in BOOLEAN :
          Read(b, oc, partial)
    \/ \E oc \in OverflowChoices : IterNext(oc)
    \/ \E ctype \in ContentTypes : ContentType(ctype)

Spec == Init /\ [][Next]_vars

(***************************************************************************)
(* Properties.  They are read off `last`, the course of the last public    *)
(* read operation, and off the bytes it consumed (last.eaten).             *)
(***************************************************************************)
\* the word at byte offset k of the bytes the last call consumed
WordAt(k) == BigEndianU32(SubSeq(last.eaten, k + 1, k + 4))

\* the control-frame parses of the last call, the handshake's first
HandshakeFrames == IF last.hs = <<>> THEN <<>> ELSE last.hs[1].cf
ControlFrames == HandshakeFrames \o last.top

\* the last call parsed a STOP control frame at top level
ParsedStop ==
    /\ last.top # <<>>
    /\ last.top[1].res = "ok"
    /\ last.top[1].control_type = CONTROL_STOP

\* the last call delivered a data-frame payload
Delivered ==
    \/ last.op = "read" /\ last.ret = "Ok" /\ last.n > 0
    \/ last.op = "next" /\ last.ret = "Some"

\* the failure a public read operation reports
Failure == IF last.op = "read" THEN "Err" ELSE "None"

\* C1: once a pull-mode read has parsed a STOP control frame, every later
\* pull-mode read on the decoder returns Ok(0), whatever the source still holds.
C1_PullTermination ==
    (last.op = "read" /\ last.readStopBefore) => (last.ret = "Ok" /\ last.n = 0)

\* C2: once a next() has parsed a STOP control frame and returned
\* end-of-sequence, every later next() returns end-of-sequence too.
C2_SequenceTermination ==
    (last.op = "next" /\ last.nextStopBefore) => last.ret = "None"

\* C3: round trip.  On a fresh decoder over handshake, frame(P), STOP: (a) the
\* first read with a buffer of capacity >= len(P) returns len(P) and the
\* buffer starts with P; (b) the first next() yields the Frame P and the
\* second next() yields end-of-sequence.
C3_RoundTrip ==
    rt # <<>> =>
        /\ (ncalls = 1 /\ last.op = "read" /\ Len(last.buf0) >= Len(rt)) =>
              /\ last.ret = "Ok"
              /\ last.n = Len(rt)
              /\ Take(buf, Len(rt)) = rt
        /\ (ncalls = 1 /\ last.op = "next") =>
              /\ last.ret = "Some"
              /\ last.data = rt
        /\ (ncalls = 2 /\ last.op = "next" /\ last.prevOp = "next") =>
              last.ret = "None"

C3_Witness ==
    /\ rt # <<>>
    /\ Len(rt) = 2
    /\ rt[1] # rt[2]
    /\ ncalls = 2
    /\ last.op = "next"
    /\ last.prevOp = "next"
    /\ last.ret = "None"
    /\ ParsedStop

\* C4: a payload is delivered only on a decoder whose start handshake has
\* succeeded, and on a decoder whose started flag is false the first bytes a
\* public read operation consumes go to the handshake (sentinel, control
\* frame), never to a frame length or a payload.
C4_HandshakePrecedesData ==
    /\ Delivered => (started /\ nstart >= 1)
    /\ (last.op # "none" /\ ~last.started0 /\ last.consumed > 0) =>
          /\ last.hs # <<>>
          /\ last.consumed >= 4 => last.hs[1].sentinel = WordAt(0)
          /\ (last.flen # -1 \/ last.payload # -1) => last.hs[1].res = "ok"
          /\ last.payload # -1 => last.head >= 16

C4_Witness ==
    /\ last.op = "next"
    /\ ~last.started0
    /\ last.ret = "Some"
    /\ last.data # <<>>
    /\ last.hs # <<>>

\* C5: the start handshake fails when the first word is not zero or the
\* control frame after it is not START; then read returns an error and
\* delivers nothing, next returns end-of-sequence, and started stays false.
C5_HandshakeValidation ==
    (/\ last.op # "none"
     /\ ~last.started0
     /\ \/ last.consumed >= 4 /\ WordAt(0) # 0
        \/ /\ HandshakeFrames # <<>>
           /\ HandshakeFrames[1].res = "ok"
           /\ HandshakeFrames[1].control_type # CONTROL_START)
    => /\ last.ret = Failure
       /\ last.err \in {"InvalidData", "InvalidInput"}
       /\ ~started
       /\ nstart = 0
       /\ last.n = -1
       /\ last.data = <<>>
       /\ last.flen = -1
       /\ last.payload = -1
       /\ last.op = "read" => buf = last.buf0

C5_Witness ==
    /\ last.op = "read"
    /\ ~last.started0
    /\ HandshakeFrames # <<>>
    /\ HandshakeFrames[1].res = "ok"
    /\ HandshakeFrames[1].control_type = CONTROL_STOP
    /\ last.ret = "Err"

\* C6: control-frame parsing accepts a declared length L exactly when
\* 4 <= L <= 512; outside that range it returns a data-format error before it
\* reads the control type; for L = 4 it succeeds with the control type read
\* and an empty content-type list.
C6_ControlLengthBounds ==
    /\ \A i \in 1..Len(ControlFrames) :
          LET cf == ControlFrames[i] IN
          cf.L # -1 =>
             /\ (cf.L > 512 \/ cf.L < 4) =>
                   /\ cf.res = "err"
                   /\ cf.err = "InvalidData"
                   /\ ~cf.typeRead
                   /\ last.ret = Failure
             /\ (cf.L >= 4 /\ cf.L <= 512) => cf.typeRead
             /\ (cf.L = 4 /\ cf.control_type # -1) =>
                   /\ cf.res = "ok"
                   /\ cf.content_types = <<>>
                   /\ cf.fields = <<>>
    \* the first control frame of a call lies after one word (the sentinel
    \* or the zero frame length)
    /\ (ControlFrames # <<>> /\ ControlFrames[1].L # -1) =>
          /\ ControlFrames[1].L = WordAt(4)
          /\ ~ControlFrames[1].typeRead => last.consumed = 8
          /\ (ControlFrames[1].L = 4 /\ last.consumed >= 12) =>
                ControlFrames[1].control_type = WordAt(8)

C6_Witness ==
    /\ last.started0
    /\ last.top # <<>>
    /\ last.top[1].L = 512
    /\ last.top[1].res = "ok"

\* C7: a control field whose type code is not the content-type code is
\* rejected before its length is read; a field whose declared value length
\* exceeds the remaining byte budget handed to read_control_field is rejected
\* before a value byte is read; the error leaves control-frame parsing and
\* the public read operation.
C7_FieldValidation ==
    \A i \in 1..Len(ControlFrames) :
        LET cf == ControlFrames[i] IN
        \A j \in 1..Len(cf.fields) :
            LET f == cf.fields[j]
                badType == f.ftype # -1 /\ f.ftype # CONTROL_FIELD_CONTENT_TYPE
                tooLong == f.flen # -1 /\ f.limit >= 0 /\ f.flen > f.limit
            IN
            /\ badType => (f.flen = -1 /\ f.ev = <<"field_type">>)
            /\ tooLong => (f.vread = -1 /\ f.ev = <<"field_type", "field_len">>)
            /\ (badType \/ tooLong) =>
                  /\ ~f.ok
                  /\ f.err = "InvalidInput"
                  /\ j = Len(cf.fields)
                  /\ cf.res = "err"
                  /\ cf.err = "InvalidInput"
                  /\ last.ret = Failure
                  /\ last.err = "InvalidInput"
                  \* in the first field of the first control frame: one word
                  \* before the frame, its length and type, then the field's
                  \* type or type and length
                  /\ (i = 1 /\ j = 1) =>
                        last.consumed = IF badType THEN 16 ELSE 20

C7_Witness ==
    /\ last.op = "read"
    /\ last.top # <<>>
    /\ last.top[1].fields # <<>>
    /\ last.top[1].fields[1].flen = 11
    /\ last.top[1].fields[1].limit = 10
    /\ last.ret = "Err"

\* C8: a top-level length word of 0 always leads to control-frame parsing,
\* and a top-level length N # 0 never does: the next N bytes are taken as
\* the payload.
C8_FrameLengthDispatch ==
    /\ last.flen # -1 =>
          /\ last.flen = 0 => last.top # <<>>
          /\ (last.flen = 0 /\ last.op = "read") => last.payload = -1
          /\ last.flen # 0 => (last.top = <<>> /\ last.payload = last.flen)
    /\ (last.started0 /\ last.consumed >= 4) =>
          /\ last.flen = WordAt(0)
          /\ last.flen # 0 => last.head = 4
          /\ (last.flen # 0 /\ Delivered) =>
                /\ last.consumed = 4 + last.flen
                /\ (IF last.op = "read" THEN Take(buf, last.n) ELSE last.data)
                      = SubSeq(last.eaten, 5, 4 + last.flen)

C8_Witness ==
    /\ last.started0
    /\ last.op = "read"
    /\ last.flen = 0
    /\ last.top # <<>>
    /\ last.top[1].res = "ok"
    /\ last.top[1].control_type = 5

\* C9: pull-mode payload read of a frame of declared length N into a buffer
\* of capacity C: when N > C it fails with a capacity error, the buffer
\* unmodified and no payload byte consumed; when N <= C and the source holds
\* N more bytes it writes them to positions 0..N-1, leaves N..C-1 alone and
\* returns N.
C9_PullPayloadRead ==
    (last.op = "read" /\ last.payload # -1) =>
        LET N == last.payload
            C == Len(last.buf0)
            held == last.consumed + Len(reader) - last.head
        IN
        /\ N > C =>
              /\ last.ret = "Err"
              /\ last.err = "Other"
              /\ buf = last.buf0
              /\ last.consumed = last.head
        /\ (N <= C /\ held >= N) =>
              /\ last.ret = "Ok"
              /\ last.n = N
              /\ last.consumed = last.head + N
              /\ Len(buf) = C
              /\ \A i \in 1..C :
                    buf[i] = IF i <= N THEN last.eaten[last.head + i]
                                       ELSE last.buf0[i]

C9_Witness ==
    /\ last.op = "read"
    /\ last.payload = 1
    /\ Len(last.buf0) = 2
    /\ last.ret = "Ok"
    /\ buf[1] # last.buf0[1]
    /\ buf[2] = last.buf0[2]

\* C10: the pull-mode read that parses a STOP control frame returns 0 and
\* leaves every byte of the caller's buffer unchanged.
C10_StopLeavesBuffer ==
    (last.op = "read" /\ ParsedStop) =>
        /\ last.ret = "Ok"
        /\ last.n = 0
        /\ buf = last.buf0

C10_Witness ==
    /\ last.op = "read"
    /\ ParsedStop
    /\ Len(last.buf0) = 2
    /\ last.ret = "Ok"

\* C11: a pull-mode read returns Ok(0) only when that call parsed a STOP
\* control frame; a call that parses another control frame after the handshake
\* does not return 0.
C11_ZeroMeansSessionEnd ==
    (last.op = "read" /\ last.ret = "Ok" /\ last.n = 0) => ParsedStop

\* C12: a START control frame parsed after the handshake has succeeded is not
\* accepted: the public read operation that parses it reports a failure.
C12_StartOnlyFirst ==
    (/\ last.top # <<>>
     /\ last.top[1].res = "ok"
     /\ last.top[1].control_type = CONTROL_START) => last.ret = Failure

\* the payload the last call handed to its caller
DeliveredPayload ==
    IF last.op = "read" THEN SubSeq(buf, 1, last.n) ELSE last.data

\* C13: on a source made of the handshake, the data frames d1 .. dk and STOP,
\* read with buffers that fit, the i-th delivering call delivers di and
\* consumes the four length bytes and the payload of di, after the handshake
\* bytes on the first call, and nothing else; the call after dk parses STOP.
C13_WireOrder ==
    (wire.d # <<>> /\ ncalls >= 1 /\ ndeliv >= ncalls - 1) =>
        IF ndeliv = ncalls THEN
            /\ ncalls <= Len(wire.d)
            /\ DeliveredPayload = wire.d[ncalls]
            /\ last.eaten = (IF ncalls = 1 THEN wire.h ELSE <<>>)
                                \o DataUnit(wire.d[ncalls])
            /\ last.consumed = (IF ncalls = 1 THEN Len(wire.h) ELSE 0)
                                   + 4 + Len(wire.d[ncalls])
        ELSE
            /\ Delivered => FALSE
            /\ ncalls = Len(wire.d) + 1 => ParsedStop

C13_Witness ==
    /\ Len(wire.d) >= 2
    /\ ncalls = 2
    /\ ndeliv = 2
    /\ last.op = "next"
    /\ last.prevOp = "read"
    /\ last.data = wire.d[2]
    /\ wire.d[1] # wire.d[2]

\* C14: once a next() has returned None because of a failure of any kind,
\* every later next() returns None as well and yields no Frame.
C14_SequenceEndsOnFailure ==
    (last.op = "next" /\ last.nextFailBefore) => last.ret = "None"

\* C15: over any sequence of read and next() calls on a decoder the start
\* handshake is executed at most once; a call made with the started flag set
\* skips it, consumes no bytes for it, raises no handshake error and takes the
\* next bytes of the source as a frame length.
C15_HandshakeOnce ==
    /\ nhs <= 1
    /\ (ncalls >= 1 /\ last.started0) =>
          /\ last.hs = <<>>
          /\ last.flen # -1 => last.flen = WordAt(0)
          /\ last.flen = -1 => (last.consumed < 4 /\ last.ret = Failure)

\* C16: the started flag is false on a new decoder; it turns true only in a
\* read or next() whose start handshake succeeded, stays false when the
\* handshake fails, and once true is never set back, whatever fails later.
C16_StartedFlag ==
    [][/\ ncalls = 0 => ~started
       /\ started => started'
       /\ (~started /\ started') =>
             /\ ncalls' = ncalls + 1
             /\ last'.op \in {"read", "next"}
             /\ last'.hs # <<>>
             /\ last'.hs[1].res = "ok"
       /\ (ncalls' = ncalls + 1 /\ last'.hs # <<>> /\ last'.hs[1].res # "ok") =>
             ~started']_vars

C16_Witness ==
    /\ ncalls >= 2
    /\ started
    /\ last.started0
    /\ last.ret = Failure
    /\ last.prevOp # last.op

C18_FramesAreDataFrames ==
    (last.op = "next" /\ last.ret = "Some") =>
        /\ last.flen # 0
        /\ last.top = <<>>
        /\ last.data # <<>>
        /\ Len(last.data) = last.flen

\* the byte budget of control frame cf after its first k fields: the
\* declared length less the control type and the fields' sizes
RECURSIVE Budget(_, _)
Budget(cf, k) ==
    IF k = 0 THEN cf.L - 4 ELSE Budget(cf, k - 1) - (8 + cf.fields[k].flen)

\* C19: the field loop of a control frame of valid length L starts with the
\* budget L - 4, parses one field exactly while the budget is above 8, takes
\* 8 + value_length off the budget after each field and returns the decoded
\* values in wire order; it stops as soon as the budget is 8 or less.  A parsed
\* field is reported as its decoded value and the size 8 + value_length.
C19_FieldLoop ==
    \A i \in 1..Len(ControlFrames) :
        LET cf == ControlFrames[i] IN
        (cf.typeRead /\ cf.control_type # -1) =>
            /\ cf.res # "panic"
            /\ \A k \in 1..Len(cf.fields) :
                  /\ Budget(cf, k - 1) > 8
                  /\ cf.fields[k].limit = Budget(cf, k - 1)
                  /\ cf.fields[k].ok =>
                        /\ cf.fields[k].n = 8 + cf.fields[k].flen
                        /\ cf.fields[k].vread = cf.fields[k].flen
                  /\ ~cf.fields[k].ok => (k = Len(cf.fields) /\ cf.res = "err")
            /\ cf.res = "ok" =>
                  /\ Budget(cf, Len(cf.fields)) <= 8
                  /\ cf.remaining = Budget(cf, Len(cf.fields))
                  /\ cf.content_types =
                        [k \in 1..Len(cf.fields) |-> cf.fields[k].ctype]

\* C20: a control frame's byte budget is never exceeded: a validated field
\* takes at most the budget left (8 + value_length <= remaining), so the
\* budget never goes below zero and the parse of a frame of declared length L
\* takes no more than L bytes after the length word.
C20_BudgetNotExceeded ==
    /\ \A i \in 1..Len(ControlFrames) :
          LET cf == ControlFrames[i] IN
          /\ ~cf.overflowed
          /\ cf.res # "panic"
          /\ \A k \in 1..Len(cf.fields) :
                cf.fields[k].ok =>
                    /\ 8 + cf.fields[k].flen <= cf.fields[k].limit
                    /\ Budget(cf, k) >= 0
    /\ (ncalls >= 1 /\ last.started0 /\ last.top # <<>> /\ last.top[1].L # -1) =>
          last.consumed <= 8 + last.top[1].L

====
